---- MODULE Spec2Model ----
(***************************************************************************)
(* Model of the vector classes of vectors_edu.py (R2Vector .. R6Vector)    *)
(* and vectors_space.py (R2Vector, R3Vector).                              *)
(*                                                                         *)
(* A run draws a receiver `self` and an argument `other`, evaluates one    *)
(* expression on them (self + other, self == other, self.norm(), ...) and  *)
(* records what the method returned (ret) and what the expression          *)
(* evaluated to (result).  Numbers are modelled by integers; a square root *)
(* is the fixed-point root with SqrtScale units per 1.                     *)
(***************************************************************************)
EXTENDS Integers, Sequences, FiniteSets, TLC

VARIABLES heap, self, other, pc, op, ret, result

vars == <<heap, self, other, pc, op, ret, result>>

(* ------------------------------ bounds --------------------------------- *)

\* the components of a drawn vector range over Vals shifted by 0 .. MaxShift
MaxShift == 0

\* fixed-point resolution of a square root
SqrtScale == 100

Vals == (0 - 1) .. 0

(* ------------------------------ values --------------------------------- *)

NoArg == [kind |-> "NoArg"]

NotImplemented == [kind |-> "NotImplemented"]

TypeError == [kind |-> "TypeError"]

AttributeError == [kind |-> "AttributeError"]

NoneV == [kind |-> "NoneType"]

BoolV(b) == [kind |-> "bool", val |-> b]

IntV(n) == [kind |-> "int", val |-> n]

\* a float of value val / scale
FloatV(n) == [kind |-> "float", val |-> n, scale |-> 1]

RootV(n) == [kind |-> "float", val |-> n, scale |-> SqrtScale]

StrV == [kind |-> "str"]

\* a string, as the sequence of its pieces
TextV(parts) == [kind |-> "str", text |-> parts]

\* a dict, as the sequence of its items
MapV(items) == [kind |-> "dict", items |-> items]

Ref(i) == [kind |-> "ref", id |-> i]

IsVector(v) == v.kind = "vector"

(* -------------------- ordered mappings (dict, kwargs) ------------------ *)

Keys(d) == [i \in 1 .. Len(d) |-> d[i][1]]

Values(d) == [i \in 1 .. Len(d) |-> d[i][2]]

Has(d, k) == \E i \in 1 .. Len(d) : d[i][1] = k

Get(d, k) == d[CHOOSE i \in 1 .. Len(d) : d[i][1] = k][2]

RECURSIVE SumSeq(_)
SumSeq(s) == IF s = <<>> THEN 0 ELSE Head(s) + SumSeq(Tail(s))

Squares(s) == [i \in 1 .. Len(s) |-> s[i] * s[i]]

RECURSIVE SqrtSearch(_, _, _)
SqrtSearch(n, lo, hi) ==
    IF lo = hi THEN lo
    ELSE LET mid == (lo + hi + 1) \div 2
         IN  IF mid * mid <= n THEN SqrtSearch(n, mid, hi)
                               ELSE SqrtSearch(n, lo, mid - 1)

\* n ** 0.5 and math.sqrt(n) for n >= 0, in units of 1/SqrtScale
Sqrt(n) == SqrtSearch(n * SqrtScale * SqrtScale, 0, (n + 1) * SqrtScale)

(* ------------------------------ classes -------------------------------- *)

Edu == "vectors_edu"

Space == "vectors_space"

Types == { <<Edu, "R2Vector">>, <<Edu, "R3Vector">>, <<Edu, "R4Vector">>,
           <<Edu, "R5Vector">>, <<Edu, "R6Vector">>,
           <<Space, "R2Vector">>, <<Space, "R3Vector">> }

\* class R3Vector(R2Vector), R4Vector(R2Vector), R5Vector(R2Vector), ...
Base(t) == IF t[2] = "R2Vector" THEN <<"builtins", "object">>
           ELSE <<t[1], "R2Vector">>

IsSubtype(t, u) == t = u \/ Base(t) = u

\* the class attribute __slots__ (absent on R2Vector, R3Vector, R4Vector)
R5Vector__slots__ == <<"z", "w", "v">>

R6Vector__slots__ == <<"z", "w", "v", "u">>

SlotsOf(t) == IF t = <<Edu, "R5Vector">> THEN R5Vector__slots__
              ELSE IF t = <<Edu, "R6Vector">> THEN R6Vector__slots__
              ELSE <<>>

\* the parameters of __init__ after self
Params(t) ==
    CASE t[2] = "R2Vector" -> <<"x", "y">>
      [] t[2] = "R3Vector" -> <<"x", "y", "z">>
      [] t[2] = "R4Vector" -> <<"x", "y", "z", "w">>
      [] t[2] = "R5Vector" -> <<"x", "y", "z", "w", "v">>
      [] t[2] = "R6Vector" -> <<"x", "y", "z", "w", "v", "u">>

\* def __init__(self, x, y) in vectors_edu.R2Vector; a bare * everywhere else
KeywordOnly(t) == t # <<Edu, "R2Vector">>

InSeq(s, k) == \E i \in 1 .. Len(s) : s[i] = k

\* whether a call's arguments bind to the parameters: no positional argument
\* for a keyword-only parameter, no unknown or doubly given name, and no
\* parameter left without a value (there are no defaults)
BindOk(t, pos, kw) ==
    LET ps == Params(t)
    IN  /\ ~(KeywordOnly(t) /\ Len(pos) > 0)
        /\ Len(pos) <= Len(ps)
        /\ \A i \in 1 .. Len(kw) : InSeq(ps, kw[i][1])
        /\ \A i \in 1 .. Len(kw) : \A j \in 1 .. Len(kw) :
               kw[i][1] = kw[j][1] => i = j
        /\ \A i \in 1 .. Len(ps) : (i <= Len(pos)) # Has(kw, ps[i])

\* the ordered mapping parameter -> value of a call that binds
Bind(t, pos, kw) ==
    LET ps == Params(t)
    IN  [i \in 1 .. Len(ps) |->
            <<ps[i], IF i <= Len(pos) THEN pos[i] ELSE Get(kw, ps[i])>>]

\* cls(*pos, **kw): __init__ stores x and y through R2Vector.__init__, then
\* the class's own components, each in __dict__ unless the class has a slot
\* of that name; an unallocated object has id 0
New(t, pos, kw) ==
    IF ~BindOk(t, pos, kw) THEN TypeError
    ELSE LET b == Bind(t, pos, kw)
         IN  [kind  |-> "vector", id |-> 0, mod |-> t[1], cls |-> t[2],
              dict  |-> SelectSeq(b, LAMBDA p : ~InSeq(SlotsOf(t), p[1])),
              slots |-> SelectSeq(b, LAMBDA p : InSeq(SlotsOf(t), p[1]))]

TypeOf(v) == IF IsVector(v) THEN <<v.mod, v.cls>> ELSE <<"builtins", v.kind>>

\* vars(obj), i.e. obj.__dict__
Vars(obj) == obj.dict

HasAttr(obj, name) == Has(obj.dict, name) \/ Has(obj.slots, name)

GetAttr(obj, name) == IF Has(obj.slots, name) THEN Get(obj.slots, name)
                      ELSE Get(obj.dict, name)

Plus == "+"

Minus == "-"

Times == "*"

\* p + q, p - q, p * q
Apply(o, p, q) ==
    CASE o = Plus  -> p + q
      [] o = Minus -> p - q
      [] o = Times -> p * q

\* {name: getattr(self, name) <o> getattr(other, name) for name in names}
Zip(names, a, b, o) ==
    [i \in 1 .. Len(names) |->
        <<names[i], Apply(o, GetAttr(a, names[i]), GetAttr(b, names[i]))>>]

AllHave(names, obj) == \A i \in 1 .. Len(names) : HasAttr(obj, names[i])

\* {name: getattr(self, name) * k for name in names}
Scaled(names, a, k) ==
    [i \in 1 .. Len(names) |-> <<names[i], GetAttr(a, names[i]) * k>>]

IsNumber(v) == TypeOf(v) \in { <<"builtins", "int">>, <<"builtins", "float">> }

(* ------------------------- norm (all classes) -------------------------- *)

\* vectors_edu.R2Vector.norm: sum(val ** 2 for val in vars(self).values()) ** 0.5
R2Vector_norm(a) == Sqrt(SumSeq(Squares(Values(Vars(a)))))

\* R5Vector.norm without the last slot
Mut_R5Vector_norm(a) ==
    Sqrt(GetAttr(a, "x") * GetAttr(a, "x") + GetAttr(a, "y") * GetAttr(a, "y")
         + GetAttr(a, "z") * GetAttr(a, "z") + GetAttr(a, "w") * GetAttr(a, "w"))

\* vectors_edu.R5Vector.norm: sqrt(x**2 + y**2 + z**2 + w**2 + v**2)
R5Vector_norm(a) ==
    Sqrt(GetAttr(a, "x") * GetAttr(a, "x") + GetAttr(a, "y") * GetAttr(a, "y")
         + GetAttr(a, "z") * GetAttr(a, "z") + GetAttr(a, "w") * GetAttr(a, "w")
         + GetAttr(a, "v") * GetAttr(a, "v"))

\* vectors_edu.R6Vector.norm: sqrt(sum(coord ** 2 for coord in components))
R6Vector_norm(a) ==
    LET components == << GetAttr(a, "x"), GetAttr(a, "y"), GetAttr(a, "z"),
                         GetAttr(a, "w"), GetAttr(a, "v"), GetAttr(a, "u") >>
    IN  Sqrt(SumSeq(Squares(components)))

\* vectors_space.R2Vector.norm
Space_R2Vector_norm(a) == Sqrt(SumSeq(Squares(Values(Vars(a)))))

\* self.norm(): the method the class of self resolves to
Norm(a) ==
    CASE TypeOf(a) = <<Edu, "R5Vector">> -> R5Vector_norm(a)
      [] TypeOf(a) = <<Edu, "R6Vector">> -> R6Vector_norm(a)
      [] a.mod = Space                   -> Space_R2Vector_norm(a)
      [] OTHER                           -> R2Vector_norm(a)

(* --------------------------- vectors_edu.R2Vector ---------------------- *)

\* R2Vector.__add__ with the body of __sub__ pasted in
Mut_R2Vector__add__(a, b) ==
    IF TypeOf(a) # TypeOf(b) THEN NotImplemented
    ELSE IF ~AllHave(Keys(Vars(a)), b) THEN AttributeError
    ELSE New(TypeOf(a), <<>>, Zip(Keys(Vars(a)), a, b, Minus))

R2Vector__add__(a, b) ==
    IF TypeOf(a) # TypeOf(b) THEN NotImplemented
    ELSE IF ~AllHave(Keys(Vars(a)), b) THEN AttributeError
    ELSE New(TypeOf(a), <<>>, Zip(Keys(Vars(a)), a, b, Plus))

\* R2Vector.__sub__ guarded by isinstance(other, type(self))
Mut_R2Vector__sub__(a, b) ==
    IF ~(IsVector(b) /\ IsSubtype(TypeOf(b), TypeOf(a))) THEN NotImplemented
    ELSE IF ~AllHave(Keys(Vars(a)), b) THEN AttributeError
    ELSE New(TypeOf(a), <<>>, Zip(Keys(Vars(a)), a, b, Minus))

R2Vector__sub__(a, b) ==
    IF TypeOf(a) # TypeOf(b) THEN NotImplemented
    ELSE IF ~AllHave(Keys(Vars(a)), b) THEN AttributeError
    ELSE New(TypeOf(a), <<>>, Zip(Keys(Vars(a)), a, b, Minus))

R2Vector__mul__(a, b) ==
    IF IsNumber(b)
    THEN New(TypeOf(a), <<>>, Scaled(Keys(Vars(a)), a, b.val))
    ELSE IF TypeOf(a) = TypeOf(b)
    THEN IF ~AllHave(Keys(Vars(a)), b) THEN AttributeError
         ELSE IntV(SumSeq(Values(Zip(Keys(Vars(a)), a, b, Times))))
    ELSE NotImplemented

\* R2Vector.__eq__ raising on a type mismatch
Mut_R2Vector__eq__(a, b) ==
    IF TypeOf(a) # TypeOf(b) THEN TypeError
    ELSE IF ~AllHave(Keys(Vars(a)), b) THEN AttributeError
    ELSE BoolV(\A i \in 1 .. Len(Vars(a)) :
                   GetAttr(a, Vars(a)[i][1]) = GetAttr(b, Vars(a)[i][1]))

R2Vector__eq__(a, b) ==
    IF TypeOf(a) # TypeOf(b) THEN NotImplemented
    ELSE IF ~AllHave(Keys(Vars(a)), b) THEN AttributeError
    ELSE BoolV(\A i \in 1 .. Len(Vars(a)) :
                   GetAttr(a, Vars(a)[i][1]) = GetAttr(b, Vars(a)[i][1]))

R2Vector__lt__(a, b) ==
    IF TypeOf(a) # TypeOf(b) THEN NotImplemented
    ELSE BoolV(Norm(a) < Norm(b))

R2Vector__gt__(a, b) ==
    IF TypeOf(a) # TypeOf(b) THEN NotImplemented
    ELSE BoolV(Norm(a) > Norm(b))

(* --------------------------- vectors_edu.R3Vector ---------------------- *)

\* R3Vector.cross with the operands of the y component exchanged
Mut_R3Vector_cross(a, b) ==
    IF TypeOf(a) # TypeOf(b) THEN NotImplemented
    ELSE New(TypeOf(a), <<>>,
             << <<"x", GetAttr(a, "y") * GetAttr(b, "z")
                       - GetAttr(a, "z") * GetAttr(b, "y")>>,
                <<"y", GetAttr(a, "x") * GetAttr(b, "z")
                       - GetAttr(a, "z") * GetAttr(b, "x")>>,
                <<"z", GetAttr(a, "x") * GetAttr(b, "y")
                       - GetAttr(a, "y") * GetAttr(b, "x")>> >>)

R3Vector_cross(a, b) ==
    IF TypeOf(a) # TypeOf(b) THEN NotImplemented
    ELSE New(TypeOf(a), <<>>,
             << <<"x", GetAttr(a, "y") * GetAttr(b, "z")
                       - GetAttr(a, "z") * GetAttr(b, "y")>>,
                <<"y", GetAttr(a, "z") * GetAttr(b, "x")
                       - GetAttr(a, "x") * GetAttr(b, "z")>>,
                <<"z", GetAttr(a, "x") * GetAttr(b, "y")
                       - GetAttr(a, "y") * GetAttr(b, "x")>> >>)

(* --------------------------- vectors_edu.R5Vector ---------------------- *)

\* component_names = self.__slots__
R5Vector__add__(a, b) ==
    IF TypeOf(a) # TypeOf(b) THEN NotImplemented
    ELSE New(TypeOf(a), <<>>, Zip(R5Vector__slots__, a, b, Plus))

R5Vector__sub__(a, b) ==
    IF TypeOf(a) # TypeOf(b) THEN NotImplemented
    ELSE New(TypeOf(a), <<>>, Zip(R5Vector__slots__, a, b, Minus))

R5Vector__mul__(a, b) ==
    IF IsNumber(b)
    THEN New(TypeOf(a), <<>>, Scaled(R5Vector__slots__, a, b.val))
    ELSE IF TypeOf(a) = TypeOf(b)
    THEN IntV(SumSeq(Values(Zip(R5Vector__slots__, a, b, Times))))
    ELSE NotImplemented

(* --------------------------- vectors_edu.R6Vector ---------------------- *)

\* component_names = ('x', 'y') + self.__slots__
R6Vector_component_names == <<"x", "y">> \o R6Vector__slots__

R6Vector__add__(a, b) ==
    IF TypeOf(a) # TypeOf(b) THEN NotImplemented
    ELSE New(TypeOf(a), <<>>, Zip(R6Vector_component_names, a, b, Plus))

R6Vector__sub__(a, b) ==
    IF TypeOf(a) # TypeOf(b) THEN NotImplemented
    ELSE New(TypeOf(a), <<>>, Zip(R6Vector_component_names, a, b, Minus))

R6Vector__mul__(a, b) ==
    IF IsNumber(b)
    THEN New(TypeOf(a), <<>>, Scaled(R6Vector_component_names, a, b.val))
    ELSE IF TypeOf(a) = TypeOf(b)
    THEN IntV(SumSeq(Values(Zip(R6Vector_component_names, a, b, Times))))
    ELSE NotImplemented

R6Vector__eq__(a, b) ==
    IF TypeOf(a) # TypeOf(b) THEN NotImplemented
    ELSE BoolV(\A i \in 1 .. Len(R6Vector_component_names) :
                   GetAttr(a, R6Vector_component_names[i])
                       = GetAttr(b, R6Vector_component_names[i]))

R6Vector__lt__(a, b) ==
    IF TypeOf(a) # TypeOf(b) THEN NotImplemented
    ELSE BoolV(Norm(a) < Norm(b))

(* -------------------- vectors_space.R2Vector, R3Vector ----------------- *)

Space_R2Vector__add__(a, b) ==
    IF TypeOf(a) # TypeOf(b) THEN NotImplemented
    ELSE IF ~AllHave(Keys(Vars(a)), b) THEN AttributeError
    ELSE New(TypeOf(a), <<>>, Zip(Keys(Vars(a)), a, b, Plus))

Space_R2Vector__sub__(a, b) ==
    IF TypeOf(a) # TypeOf(b) THEN NotImplemented
    ELSE IF ~AllHave(Keys(Vars(a)), b) THEN AttributeError
    ELSE New(TypeOf(a), <<>>, Zip(Keys(Vars(a)), a, b, Minus))

Space_R2Vector__mul__(a, b) ==
    IF IsNumber(b)
    THEN New(TypeOf(a), <<>>, Scaled(Keys(Vars(a)), a, b.val))
    ELSE IF TypeOf(a) = TypeOf(b)
    THEN IF ~AllHave(Keys(Vars(a)), b) THEN AttributeError
         ELSE IntV(SumSeq(Values(Zip(Keys(Vars(a)), a, b, Times))))
    ELSE NotImplemented

Space_R2Vector__eq__(a, b) ==
    IF TypeOf(a) # TypeOf(b) THEN NotImplemented
    ELSE IF ~AllHave(Keys(Vars(a)), b) THEN AttributeError
    ELSE BoolV(\A i \in 1 .. Len(Vars(a)) :
                   GetAttr(a, Vars(a)[i][1]) = GetAttr(b, Vars(a)[i][1]))

Space_R2Vector__lt__(a, b) ==
    IF TypeOf(a) # TypeOf(b) THEN NotImplemented
    ELSE BoolV(Norm(a) < Norm(b))

Space_R2Vector__le__(a, b) ==
    IF TypeOf(a) # TypeOf(b) THEN NotImplemented
    ELSE BoolV(Norm(a) <= Norm(b))

Space_R2Vector__gt__(a, b) ==
    IF TypeOf(a) # TypeOf(b) THEN NotImplemented
    ELSE BoolV(Norm(a) > Norm(b))

Space_R2Vector__ge__(a, b) ==
    IF TypeOf(a) # TypeOf(b) THEN NotImplemented
    ELSE BoolV(Norm(a) >= Norm(b))

Space_R3Vector_cross(a, b) ==
    IF TypeOf(a) # TypeOf(b) THEN NotImplemented
    ELSE New(TypeOf(a), <<>>,
             << <<"x", GetAttr(a, "y") * GetAttr(b, "z")
                       - GetAttr(a, "z") * GetAttr(b, "y")>>,
                <<"y", GetAttr(a, "z") * GetAttr(b, "x")
                       - GetAttr(a, "x") * GetAttr(b, "z")>>,
                <<"z", GetAttr(a, "x") * GetAttr(b, "y")
                       - GetAttr(a, "y") * GetAttr(b, "x")>> >>)

(* ------------------ method resolution, first stage --------------------- *)
(* type(a).__add__(a, b) and so on: the definition the class of a inherits  *)
(* or overrides; a built-in receiver (int, float, str) knows no vector      *)

Call__add__(a, b) ==
    CASE ~IsVector(a)                    -> NotImplemented
      [] TypeOf(a) = <<Edu, "R5Vector">> -> R5Vector__add__(a, b)
      [] TypeOf(a) = <<Edu, "R6Vector">> -> R6Vector__add__(a, b)
      [] a.mod = Space                   -> Space_R2Vector__add__(a, b)
      [] OTHER                           -> R2Vector__add__(a, b)

Call__sub__(a, b) ==
    CASE ~IsVector(a)                    -> NotImplemented
      [] TypeOf(a) = <<Edu, "R5Vector">> -> R5Vector__sub__(a, b)
      [] TypeOf(a) = <<Edu, "R6Vector">> -> R6Vector__sub__(a, b)
      [] a.mod = Space                   -> Space_R2Vector__sub__(a, b)
      [] OTHER                           -> R2Vector__sub__(a, b)

Call__mul__(a, b) ==
    CASE ~IsVector(a)                    -> NotImplemented
      [] TypeOf(a) = <<Edu, "R5Vector">> -> R5Vector__mul__(a, b)
      [] TypeOf(a) = <<Edu, "R6Vector">> -> R6Vector__mul__(a, b)
      [] a.mod = Space                   -> Space_R2Vector__mul__(a, b)
      [] OTHER                           -> R2Vector__mul__(a, b)

\* R5Vector defines no __eq__: it inherits R2Vector.__eq__
Call__eq__(a, b) ==
    CASE ~IsVector(a)                    -> NotImplemented
      [] TypeOf(a) = <<Edu, "R6Vector">> -> R6Vector__eq__(a, b)
      [] a.mod = Space                   -> Space_R2Vector__eq__(a, b)
      [] OTHER                           -> R2Vector__eq__(a, b)

Call__lt__(a, b) ==
    CASE ~IsVector(a)                    -> NotImplemented
      [] TypeOf(a) = <<Edu, "R6Vector">> -> R6Vector__lt__(a, b)
      [] a.mod = Space                   -> Space_R2Vector__lt__(a, b)
      [] OTHER                           -> R2Vector__lt__(a, b)

\* no class overrides __gt__
Call__gt__(a, b) ==
    CASE ~IsVector(a)  -> NotImplemented
      [] a.mod = Space -> Space_R2Vector__gt__(a, b)
      [] OTHER         -> R2Vector__gt__(a, b)

\* no class defines __radd__ or __rsub__
Call__radd__(b, a) == NotImplemented

Call__rsub__(b, a) == NotImplemented

\* no vector class defines __rmul__; str * vector raises
Call__rmul__(b, a) == IF b.kind = "str" THEN TypeError ELSE NotImplemented

(* ------------------------ the operator protocol ------------------------ *)

\* a is b
Is(a, b) == IsVector(a) /\ IsVector(b) /\ a.id = b.id /\ a.id # 0

\* not v; a raised exception propagates
Not(v) == IF v.kind = "bool" THEN BoolV(~v.val) ELSE v

\* a <op> b for an arithmetic operator, as the expressions of __main__ and
\* of a caller evaluate it: the method of a, then the reflected method of b
\* when the types differ, then TypeError
\* (fwd and refl are what the two methods return)
BinaryOp(a, b, fwd, refl) ==
    LET r1 == fwd
        r2 == IF TypeOf(a) # TypeOf(b) THEN refl ELSE NotImplemented
    IN  IF r1.kind # "NotImplemented" THEN r1
        ELSE IF r2.kind # "NotImplemented" THEN r2
        ELSE TypeError

\* a <op> b for a comparison: the reflected method of b first when the type
\* of b is a proper subclass of the type of a, the method of a, the
\* reflected method of b, then the default (identity for == and TypeError
\* for an ordering)
\* (fwd and refl are what the two methods return)
RichCompare(a, b, fwd, refl, dflt) ==
    LET first == TypeOf(a) # TypeOf(b) /\ IsSubtype(TypeOf(b), TypeOf(a))
        r0 == IF first THEN refl ELSE NotImplemented
        r1 == fwd
        r2 == IF first THEN NotImplemented ELSE refl
    IN  IF r0.kind # "NotImplemented" THEN r0
        ELSE IF r1.kind # "NotImplemented" THEN r1
        ELSE IF r2.kind # "NotImplemented" THEN r2
        ELSE dflt

\* self == other
OpEq(a, b) ==
    RichCompare(a, b, Call__eq__(a, b), Call__eq__(b, a), BoolV(Is(a, b)))

\* self < other
OpLt(a, b) ==
    RichCompare(a, b, Call__lt__(a, b), Call__gt__(b, a), TypeError)

\* self > other
OpGt(a, b) ==
    RichCompare(a, b, Call__gt__(a, b), Call__lt__(b, a), TypeError)

(* ------------- methods written with ==, < and > on self ---------------- *)

R2Vector__ne__(a, b) == Not(OpEq(a, b))

\* R2Vector.__le__ written as not self < other
Mut_R2Vector__le__(a, b) ==
    IF TypeOf(a) # TypeOf(b) THEN NotImplemented
    ELSE Not(OpLt(a, b))

R2Vector__le__(a, b) ==
    IF TypeOf(a) # TypeOf(b) THEN NotImplemented
    ELSE Not(OpGt(a, b))

R2Vector__ge__(a, b) ==
    IF TypeOf(a) # TypeOf(b) THEN NotImplemented
    ELSE Not(OpLt(a, b))

R6Vector__ne__(a, b) == Not(OpEq(a, b))

R6Vector__ge__(a, b) ==
    IF TypeOf(a) # TypeOf(b) THEN NotImplemented
    ELSE Not(OpLt(a, b))

Space_R2Vector__ne__(a, b) == Not(OpEq(a, b))

(* ------------------ method resolution, second stage -------------------- *)

Call__ne__(a, b) ==
    CASE ~IsVector(a)                    -> NotImplemented
      [] TypeOf(a) = <<Edu, "R6Vector">> -> R6Vector__ne__(a, b)
      [] a.mod = Space                   -> Space_R2Vector__ne__(a, b)
      [] OTHER                           -> R2Vector__ne__(a, b)

\* R6Vector defines __lt__ and __ge__ only: __le__ is R2Vector's
Call__le__(a, b) ==
    CASE ~IsVector(a)  -> NotImplemented
      [] a.mod = Space -> Space_R2Vector__le__(a, b)
      [] OTHER         -> R2Vector__le__(a, b)

Call__ge__(a, b) ==
    CASE ~IsVector(a)                    -> NotImplemented
      [] TypeOf(a) = <<Edu, "R6Vector">> -> R6Vector__ge__(a, b)
      [] a.mod = Space                   -> Space_R2Vector__ge__(a, b)
      [] OTHER                           -> R2Vector__ge__(a, b)

\* cross is defined by the two R3Vector classes only
HasCross(a) == IsVector(a) /\ a.cls = "R3Vector"

Call_cross(a, b) ==
    IF a.mod = Space THEN Space_R3Vector_cross(a, b)
    ELSE R3Vector_cross(a, b)

\* self != other
OpNe(a, b) ==
    RichCompare(a, b, Call__ne__(a, b), Call__ne__(b, a), BoolV(~Is(a, b)))

\* self <= other
OpLe(a, b) ==
    RichCompare(a, b, Call__le__(a, b), Call__ge__(b, a), TypeError)

\* self >= other
OpGe(a, b) ==
    RichCompare(a, b, Call__ge__(a, b), Call__le__(b, a), TypeError)

(* ----------------------- __str__ and __repr__ -------------------------- *)

RECURSIVE Join(_, _)
\* sep.join(pieces), each piece a sequence of strings
Join(pieces, sep) ==
    IF pieces = <<>> THEN <<>>
    ELSE IF Len(pieces) = 1 THEN pieces[1]
    ELSE pieces[1] \o <<sep>> \o Join(Tail(pieces), sep)

\* str(tuple(values)) for two or more values
TupleText(values) ==
    <<"(">> \o Join([i \in 1 .. Len(values) |-> <<ToString(values[i])>>], ", ")
            \o <<")">>

\* str(tuple(getattr(self, i) for i in vars(self)))
R2Vector__str__(a) == TextV(TupleText(Values(Vars(a))))

\* f"{self.__class__.__name__}({arg_str})" with "key = val" arguments
R2Vector__repr__(a) ==
    TextV(<<a.cls, "(">>
          \o Join([i \in 1 .. Len(Vars(a)) |->
                      <<Vars(a)[i][1], " = ", ToString(Vars(a)[i][2])>>], ", ")
          \o <<")">>)

R5Vector__str__(a) ==
    TextV(TupleText(<< GetAttr(a, "x"), GetAttr(a, "y"), GetAttr(a, "z"),
                       GetAttr(a, "w"), GetAttr(a, "v") >>))

R5Vector__repr__(a) ==
    TextV(<<"R5Vector", "(">>
          \o Join([i \in 1 .. 5 |->
                      << <<"x", "y", "z", "w", "v">>[i], "=",
                         ToString(GetAttr(a, <<"x", "y", "z", "w", "v">>[i])) >>],
                  ", ")
          \o <<")">>)

R6Vector__str__(a) ==
    TextV(TupleText(<< GetAttr(a, "x"), GetAttr(a, "y"), GetAttr(a, "z"),
                       GetAttr(a, "w"), GetAttr(a, "v"), GetAttr(a, "u") >>))

R6Vector__repr__(a) ==
    TextV(<<"R6Vector", "(">>
          \o Join([i \in 1 .. 6 |->
                      << <<"x", "y", "z", "w", "v", "u">>[i], "=",
                         ToString(GetAttr(a, <<"x", "y", "z", "w", "v", "u">>[i])) >>],
                  ", ")
          \o <<")">>)

Space_R2Vector__str__(a) == TextV(TupleText(Values(Vars(a))))

\* f"{self.__class__.__name__}({args})" with "k=v" arguments
Space_R2Vector__repr__(a) ==
    TextV(<<a.cls, "(">>
          \o Join([i \in 1 .. Len(Vars(a)) |->
                      <<Vars(a)[i][1], "=", ToString(Vars(a)[i][2])>>], ", ")
          \o <<")">>)

\* str(self)
Call__str__(a) ==
    CASE TypeOf(a) = <<Edu, "R5Vector">> -> R5Vector__str__(a)
      [] TypeOf(a) = <<Edu, "R6Vector">> -> R6Vector__str__(a)
      [] a.mod = Space                   -> Space_R2Vector__str__(a)
      [] OTHER                           -> R2Vector__str__(a)

\* repr(self)
Call__repr__(a) ==
    CASE TypeOf(a) = <<Edu, "R5Vector">> -> R5Vector__repr__(a)
      [] TypeOf(a) = <<Edu, "R6Vector">> -> R6Vector__repr__(a)
      [] a.mod = Space                   -> Space_R2Vector__repr__(a)
      [] OTHER                           -> R2Vector__repr__(a)

(* ----------------------- R6Vector.show_attr ---------------------------- *)

\* {**e, **d}: the merge with its operands exchanged
Mut_Update(d, e) == e \o SelectSeq(d, LAMBDA p : ~Has(e, p[1]))

RECURSIVE Update(_, _)
\* {**d, **e}: the items of d, each with the value e gives its key if e has
\* it, then the items of e whose key d has not
Update(d, e) ==
    IF e = <<>> THEN d
    ELSE LET k == Head(e)[1]
             v == Head(e)[2]
             d1 == IF Has(d, k)
                   THEN [i \in 1 .. Len(d) |->
                            IF d[i][1] = k THEN <<k, v>> ELSE d[i]]
                   ELSE Append(d, <<k, v>>)
         IN  Update(d1, Tail(e))

\* getattr(obj, "__slots__", ()): the class attribute, () without one
SlotNames(obj) == SlotsOf(TypeOf(obj))

\* R6Vector.show_attr with dict_attrs.update(slot_attrs); return dict_attrs
Mut_R6Vector_show_attr(obj) ==
    LET dict_attrs == Vars(obj)
        slot_attrs == [i \in 1 .. Len(SlotNames(obj)) |->
                          <<SlotNames(obj)[i], GetAttr(obj, SlotNames(obj)[i])>>]
    IN  [ret |-> MapV(Update(dict_attrs, slot_attrs)),
         obj |-> [obj EXCEPT !.dict = Update(dict_attrs, slot_attrs)]]

\* R6Vector.show_attr(obj): the dict it returns, and obj after the call
R6Vector_show_attr(obj) ==
    LET dict_attrs == Vars(obj)
        slot_attrs == [i \in 1 .. Len(SlotNames(obj)) |->
                          <<SlotNames(obj)[i], GetAttr(obj, SlotNames(obj)[i])>>]
    IN  [ret |-> MapV(Update(dict_attrs, slot_attrs)), obj |-> obj]

(* ------------------------------ inputs --------------------------------- *)

Kwargs(t) ==
    { [i \in 1 .. Len(Params(t)) |-> <<Params(t)[i], f[i] + s>>] :
          f \in [1 .. Len(Params(t)) -> Vals], s \in 0 .. MaxShift }

\* the instances of __main__: v1, v1_cross, v3, v4, v5
Demo(t) ==
    LET c == CASE t[2] = "R2Vector" -> <<2, 3>>
               [] t[2] = "R3Vector" -> <<2, 3, 1>>
               [] OTHER             -> <<1, 2, 3, 4, 5, 6>>
    IN  New(t, <<>>, [i \in 1 .. Len(Params(t)) |-> <<Params(t)[i], c[i]>>])

\* every instance the constructor builds from the drawn components, and the
\* instance of __main__
Instances(t) == { New(t, <<>>, kw) : kw \in Kwargs(t) } \cup { Demo(t) }

\* the scalars of the drawn products; 3 is the scalar of __main__
Scalars == { IntV(0 - 1), IntV(3), FloatV(2) }

NonVectors == Scalars \cup {StrV}

At(obj, i) == [obj EXCEPT !.id = i]

Deref(v) == IF v.kind = "ref" THEN heap[v.id] ELSE v

(* ---------------------------- state machine ---------------------------- *)

Init ==
    /\ pc = "ready"
    /\ op = "none"
    /\ ret = NoArg
    /\ result = NoArg
    /\ self = Ref(1)
    /\ \E t \in Types : \E a \in Instances(t) :
          \/ /\ heap = << At(a, 1) >>
             /\ other \in {NoArg, Ref(1)} \cup NonVectors
          \/ /\ other = Ref(2)
             /\ \E b \in Instances(t) \cup { Demo(u) : u \in Types } :
                   heap = << At(a, 1), At(b, 2) >>

\* a vector the expression built is allocated at the next free address
Stored(v) ==
    IF IsVector(v) THEN Ref(IF v.id = 0 THEN Len(heap) + 1 ELSE v.id) ELSE v

Finish(name, r, res) ==
    /\ pc' = "done"
    /\ op' = name
    /\ ret' = Stored(r)
    /\ result' = Stored(res)
    /\ heap' = IF IsVector(res) /\ res.id = 0
               THEN Append(heap, At(res, Len(heap) + 1))
               ELSE heap
    /\ UNCHANGED <<self, other>>

Binary == pc = "ready" /\ other # NoArg

\* self + other
Add ==
    /\ Binary
    /\ Finish("add", Call__add__(Deref(self), Deref(other)),
              BinaryOp(Deref(self), Deref(other),
                       Call__add__(Deref(self), Deref(other)),
                       Call__radd__(Deref(other), Deref(self))))

\* self - other
Sub ==
    /\ Binary
    /\ Finish("sub", Call__sub__(Deref(self), Deref(other)),
              BinaryOp(Deref(self), Deref(other),
                       Call__sub__(Deref(self), Deref(other)),
                       Call__rsub__(Deref(other), Deref(self))))

\* self * other
Mul ==
    /\ Binary
    /\ Finish("mul", Call__mul__(Deref(self), Deref(other)),
              BinaryOp(Deref(self), Deref(other),
                       Call__mul__(Deref(self), Deref(other)),
                       Call__rmul__(Deref(other), Deref(self))))

\* self == other
Eq ==
    /\ Binary
    /\ Finish("eq", Call__eq__(Deref(self), Deref(other)),
              OpEq(Deref(self), Deref(other)))

\* self != other
Ne ==
    /\ Binary
    /\ Finish("ne", Call__ne__(Deref(self), Deref(other)),
              OpNe(Deref(self), Deref(other)))

\* self < other
Lt ==
    /\ Binary
    /\ Finish("lt", Call__lt__(Deref(self), Deref(other)),
              OpLt(Deref(self), Deref(other)))

\* self > other
Gt ==
    /\ Binary
    /\ Finish("gt", Call__gt__(Deref(self), Deref(other)),
              OpGt(Deref(self), Deref(other)))

\* self <= other
Le ==
    /\ Binary
    /\ Finish("le", Call__le__(Deref(self), Deref(other)),
              OpLe(Deref(self), Deref(other)))

\* self >= other
Ge ==
    /\ Binary
    /\ Finish("ge", Call__ge__(Deref(self), Deref(other)),
              OpGe(Deref(self), Deref(other)))

\* self.cross(other)
Cross ==
    /\ Binary
    /\ HasCross(Deref(self))
    /\ Finish("cross", Call_cross(Deref(self), Deref(other)),
              Call_cross(Deref(self), Deref(other)))

\* self.norm()
NormCall ==
    /\ pc = "ready"
    /\ other = NoArg
    /\ Finish("norm", RootV(Norm(Deref(self))), RootV(Norm(Deref(self))))

Unary == pc = "ready" /\ other = NoArg

\* str(self)
Str ==
    /\ Unary
    /\ Finish("str", Call__str__(Deref(self)), Call__str__(Deref(self)))

\* repr(self)
Repr ==
    /\ Unary
    /\ Finish("repr", Call__repr__(Deref(self)), Call__repr__(Deref(self)))

\* R6Vector.show_attr(self)
ShowAttr ==
    /\ pc \in {"ready", "attached"}
    /\ other = NoArg
    /\ pc' = "done"
    /\ op' = "show_attr"
    /\ ret' = R6Vector_show_attr(Deref(self)).ret
    /\ result' = R6Vector_show_attr(Deref(self)).ret
    /\ heap' = [heap EXCEPT ![self.id] = R6Vector_show_attr(Deref(self)).obj]
    /\ UNCHANGED <<self, other>>

Next ==
    \/ Add \/ Sub \/ Mul
    \/ Eq \/ Ne
    \/ Lt \/ Gt \/ Le \/ Ge
    \/ Cross
    \/ NormCall
    \/ Str \/ Repr
    \/ ShowAttr

Spec == Init /\ [][Next]_vars

(* ----------------------- attaching an attribute ------------------------ *)

\* the names and values a client assigns
AttachNames == {"x", "z", "u", "foo"}

AttachVals == {0, 7}

\* the instance has a __dict__ unless every class of its MRO below object
\* declares __slots__; R2Vector declares none
HasDict(obj) ==
    \E c \in {TypeOf(obj), Base(TypeOf(obj))} :
       /\ c # <<"builtins", "object">>
       /\ c \notin { <<Edu, "R5Vector">>, <<Edu, "R6Vector">> }

\* obj.name = value (object.__setattr__): the slot of that name if the class
\* declares one, else the entry of that name in __dict__
SetAttrOn(obj, name, value) ==
    IF InSeq(SlotNames(obj), name)
    THEN [obj EXCEPT !.slots = Update(obj.slots, << <<name, value>> >>)]
    ELSE IF HasDict(obj)
    THEN [obj EXCEPT !.dict = Update(obj.dict, << <<name, value>> >>)]
    ELSE AttributeError

\* self.name = value
SetAttr ==
    /\ Unary
    /\ \E name \in AttachNames : \E value \in AttachVals :
          LET r == SetAttrOn(Deref(self), name, value)
          IN  /\ heap' = IF IsVector(r) THEN [heap EXCEPT ![self.id] = r] ELSE heap
              /\ ret' = IF IsVector(r) THEN NoneV ELSE r
              /\ result' = IF IsVector(r) THEN NoneV ELSE r
    /\ pc' = "attached"
    /\ op' = "setattr"
    /\ UNCHANGED <<self, other>>

NextAttach ==
    \/ SetAttr
    \/ ShowAttr

SpecAttach == Init /\ [][NextAttach]_vars

(* ----------------------------- construction ---------------------------- *)

\* cls(*pos, **kw) as the argument of an expression
CallV(t, pos, kw) ==
    [kind |-> "call", mod |-> t[1], cls |-> t[2], pos |-> pos, kw |-> kw]

\* the keyword names a caller may write: those of the widest constructor
CallNames == Params(<<Edu, "R6Vector">>)

\* the value a caller gives for the i-th name
CallVal(i, s) == i + s

\* no instance exists yet
InitConstruct ==
    /\ pc = "ready"
    /\ op = "none"
    /\ ret = NoArg
    /\ result = NoArg
    /\ self = NoArg
    /\ other = NoArg
    /\ heap = <<>>

\* t(*pos, **kw): the first k parameters positionally, the names of given by
\* keyword
Construct ==
    /\ pc = "ready"
    /\ heap = <<>>
    /\ \E t \in Types : \E k \in 0 .. Len(Params(t)) + 1 :
       \E given \in SUBSET (1 .. Len(CallNames)) : \E s \in 0 .. MaxShift :
          LET pos == [i \in 1 .. k |-> CallVal(i, s)]
              kw  == SelectSeq([i \in 1 .. Len(CallNames) |->
                                   <<CallNames[i], CallVal(i, s)>>],
                               LAMBDA p : \E i \in given : CallNames[i] = p[1])
              r   == New(t, pos, kw)
          IN  /\ other' = CallV(t, pos, kw)
              /\ heap' = IF IsVector(r) THEN << At(r, 1) >> ELSE heap
              /\ ret' = IF IsVector(r) THEN Ref(1) ELSE r
              /\ result' = IF IsVector(r) THEN Ref(1) ELSE r
    /\ pc' = "done"
    /\ op' = "new"
    /\ UNCHANGED self

NextConstruct == Construct

SpecConstruct == InitConstruct /\ [][NextConstruct]_vars

(* ------------------------------ claims --------------------------------- *)

SelfObj == heap[1]

OtherObj == Deref(other)

Done(o) == pc = "done" /\ op = o

SameType == other.kind = "ref" /\ TypeOf(SelfObj) = TypeOf(OtherObj)

OpenTypes == { <<Edu, "R2Vector">>, <<Edu, "R3Vector">>, <<Edu, "R4Vector">>,
               <<Space, "R2Vector">>, <<Space, "R3Vector">> }

SlotTypes == { <<Edu, "R5Vector">>, <<Edu, "R6Vector">> }

\* the component list of each type in the data model
Components(t) ==
    CASE t[2] = "R2Vector" -> <<"x", "y">>
      [] t[2] = "R3Vector" -> <<"x", "y", "z">>
      [] t[2] = "R4Vector" -> <<"x", "y", "z", "w">>
      [] t[2] = "R5Vector" -> <<"x", "y", "z", "w", "v">>
      [] t[2] = "R6Vector" -> <<"x", "y", "z", "w", "v", "u">>

\* the expression built an instance of type t that is neither operand
NewInstance(t) ==
    /\ result.kind = "ref"
    /\ result.id # 1
    /\ other.kind = "ref" => result.id # other.id
    /\ result.id \in DOMAIN heap
    /\ TypeOf(heap[result.id]) = t

\* the instance built has exactly the components of its type, each
\* (component of self) <o> (component of other)
Componentwise(o) ==
    LET t == TypeOf(SelfObj)
        r == heap[result.id]
    IN  /\ Len(r.dict) + Len(r.slots) = Len(Components(t))
        /\ \A i \in 1 .. Len(Components(t)) :
              /\ HasAttr(r, Components(t)[i])
              /\ GetAttr(r, Components(t)[i])
                   = Apply(o, GetAttr(SelfObj, Components(t)[i]),
                           GetAttr(OtherObj, Components(t)[i]))

\* C1: on two instances of the same open-discipline type (R2Vector, R3Vector,
\* R4Vector), self + other and self - other build a new instance of that
\* type whose every component is the sum, respectively the difference, of
\* the operands' components.
C1_AddSubOpen ==
    (pc = "done" /\ SameType /\ TypeOf(SelfObj) \in OpenTypes) =>
        /\ op = "add" => NewInstance(TypeOf(SelfObj)) /\ Componentwise(Plus)
        /\ op = "sub" => NewInstance(TypeOf(SelfObj)) /\ Componentwise(Minus)

C1_Witness ==
    /\ Done("sub")
    /\ SameType
    /\ TypeOf(SelfObj) = <<Edu, "R4Vector">>
    /\ result.kind = "ref"
    /\ GetAttr(heap[result.id], "x") = 1
    /\ GetAttr(heap[result.id], "w") = 5

\* C2: on two instances of the same fixed-slot type (R5Vector, R6Vector),
\* self + other and self - other succeed and build a new instance of that
\* type combining all five, respectively all six, components.
C2_AddSubSlots ==
    (pc = "done" /\ SameType /\ TypeOf(SelfObj) \in SlotTypes) =>
        /\ op = "add" => NewInstance(TypeOf(SelfObj)) /\ Componentwise(Plus)
        /\ op = "sub" => NewInstance(TypeOf(SelfObj)) /\ Componentwise(Minus)

\* the sum of the products of all corresponding components of the type
DotProduct(a, b) ==
    SumSeq([i \in 1 .. Len(Components(TypeOf(a))) |->
               GetAttr(a, Components(TypeOf(a))[i])
                   * GetAttr(b, Components(TypeOf(a))[i])])

\* C3: on two instances of the same type, self * other is the scalar sum of
\* the products of all corresponding components of the type, and equals
\* other * self.
C3_DotProduct ==
    (Done("mul") /\ SameType) =>
        /\ result = IntV(DotProduct(SelfObj, OtherObj))
        /\ result = BinaryOp(OtherObj, SelfObj, Call__mul__(OtherObj, SelfObj),
                             Call__rmul__(SelfObj, OtherObj))

\* C4: for every type, self * k with k a real-number scalar succeeds and
\* builds a new instance of the same type with every component times k.
C4_ScalarMultiply ==
    (Done("mul") /\ other.kind \in {"int", "float"}) =>
        /\ NewInstance(TypeOf(SelfObj))
        /\ LET t == TypeOf(SelfObj)
               r == heap[result.id]
           IN  /\ Len(r.dict) + Len(r.slots) = Len(Components(t))
               /\ \A i \in 1 .. Len(Components(t)) :
                     /\ HasAttr(r, Components(t)[i])
                     /\ GetAttr(r, Components(t)[i])
                          = GetAttr(SelfObj, Components(t)[i]) * other.val

\* every corresponding component of the type's full list compares equal
AllEqual(a, b) ==
    \A i \in 1 .. Len(Components(TypeOf(a))) :
        GetAttr(a, Components(TypeOf(a))[i]) = GetAttr(b, Components(TypeOf(a))[i])

\* C5: on two instances of the same type, self == other is true exactly when
\* every corresponding component of the full component list is equal,
\* self != other is its negation, and self == self is true.
C5_Equality ==
    (pc = "done" /\ SameType) =>
        /\ op = "eq" => result = BoolV(AllEqual(SelfObj, OtherObj))
        /\ op = "ne" => result = BoolV(~AllEqual(SelfObj, OtherObj))
        /\ (op = "eq" /\ other = self) => result = BoolV(TRUE)

Orderings == {"lt", "gt", "le", "ge"}

Mismatched == pc = "done" /\ other # NoArg /\ TypeOf(SelfObj) # TypeOf(OtherObj)

C7_EqualityMismatch ==
    Mismatched =>
        /\ op = "eq" => result.kind = "bool" /\ result.val = FALSE
        /\ op = "ne" => result.kind = "bool" /\ result.val = TRUE
        /\ op \in Orderings
              => ret.kind = "NotImplemented" /\ result.kind = "TypeError"

C7_Witness ==
    /\ Done("eq")
    /\ TypeOf(SelfObj) = <<Edu, "R6Vector">>
    /\ other.kind = "ref"
    /\ TypeOf(OtherObj) = <<Edu, "R5Vector">>
    /\ ret.kind = "NotImplemented"
    /\ result.kind = "bool"
    /\ result.val = FALSE

\* the sum of the squares of all components of the type
SumSquares(a) == DotProduct(a, a)

IsZero(a) == \A i \in 1 .. Len(Components(TypeOf(a))) :
                 GetAttr(a, Components(TypeOf(a))[i]) = 0

\* C8: on two instances of the same type the four orderings compare the
\* norms only: < as <, > as >, <= as <= and >= as >=; so the zero vector is
\* less than every nonzero vector of its type, and two distinct vectors of
\* equal norm are neither < nor > each other.
C8_OrderByNorm ==
    (pc = "done" /\ SameType) =>
        /\ op = "lt" => result = BoolV(Norm(SelfObj) < Norm(OtherObj))
        /\ op = "gt" => result = BoolV(Norm(SelfObj) > Norm(OtherObj))
        /\ op = "le" => result = BoolV(Norm(SelfObj) <= Norm(OtherObj))
        /\ op = "ge" => result = BoolV(Norm(SelfObj) >= Norm(OtherObj))
        /\ (op = "lt" /\ IsZero(SelfObj) /\ ~IsZero(OtherObj))
              => result = BoolV(TRUE)
        /\ (op \in {"lt", "gt"} /\ ~AllEqual(SelfObj, OtherObj)
                /\ SumSquares(SelfObj) = SumSquares(OtherObj))
              => result = BoolV(FALSE)

C8_Witness ==
    /\ Done("le")
    /\ SameType
    /\ TypeOf(SelfObj) = <<Edu, "R6Vector">>
    /\ ~AllEqual(SelfObj, OtherObj)
    /\ SumSquares(SelfObj) = SumSquares(OtherObj)
    /\ SumSquares(SelfObj) > 0
    /\ result = BoolV(TRUE)

\* C9: self.norm() is the non-negative square root of the sum of the squares
\* of all components of the type (here: the root in units of 1/SqrtScale,
\* rounded down); it is never negative and is 0 for the all-zero vector.
C9_Norm ==
    Done("norm") =>
        /\ result.kind = "float"
        /\ result.scale = SqrtScale
        /\ result.val >= 0
        /\ result.val * result.val
              <= SumSquares(SelfObj) * SqrtScale * SqrtScale
        /\ (result.val + 1) * (result.val + 1)
              > SumSquares(SelfObj) * SqrtScale * SqrtScale
        /\ IsZero(SelfObj) => result.val = 0

C9_Witness ==
    /\ Done("norm")
    /\ TypeOf(SelfObj) = <<Edu, "R5Vector">>
    /\ SumSquares(SelfObj) = 55
    /\ result.kind = "float"
    /\ result.val >= 7 * SqrtScale
    /\ result.val < 8 * SqrtScale

\* -v, as v * -1
Negated(v) ==
    BinaryOp(v, IntV(0 - 1), Call__mul__(v, IntV(0 - 1)),
             Call__rmul__(IntV(0 - 1), v))

\* C10: on two R3Vector instances, self.cross(other) builds a new R3Vector
\* with components (y*oz - z*oy, z*ox - x*oz, x*oy - y*ox), and it equals
\* other.cross(self) scaled by -1.
C10_Cross ==
    (Done("cross") /\ SameType) =>
        /\ NewInstance(TypeOf(SelfObj))
        /\ LET a == SelfObj
               b == OtherObj
               r == heap[result.id]
           IN  /\ Keys(r.dict) = <<"x", "y", "z">>
               /\ r.slots = <<>>
               /\ GetAttr(r, "x") = GetAttr(a, "y") * GetAttr(b, "z")
                                      - GetAttr(a, "z") * GetAttr(b, "y")
               /\ GetAttr(r, "y") = GetAttr(a, "z") * GetAttr(b, "x")
                                      - GetAttr(a, "x") * GetAttr(b, "z")
               /\ GetAttr(r, "z") = GetAttr(a, "x") * GetAttr(b, "y")
                                      - GetAttr(a, "y") * GetAttr(b, "x")
               /\ OpEq(r, Negated(Call_cross(b, a))) = BoolV(TRUE)

C10_Witness ==
    /\ Done("cross")
    /\ SameType
    /\ TypeOf(SelfObj) = <<Space, "R3Vector">>
    /\ result.kind = "ref"
    /\ GetAttr(heap[result.id], "x") = 3
    /\ GetAttr(heap[result.id], "y") = 0 - 2
    /\ GetAttr(heap[result.id], "z") = 0

\* C11: every operation (norm, str, repr, +, -, *, cross, ==, !=, the
\* orderings, show_attr) leaves every existing instance, so both operands
\* and each of their components, as it was, whether it succeeds or ends in
\* a TypeError; and a vector it yields is an instance that did not exist
\* before the operation, so one distinct from both operands.
C11_Frame ==
    [][ /\ Len(heap') >= Len(heap)
        /\ \A i \in DOMAIN heap : heap'[i] = heap[i]
        /\ self' = self
        /\ other' = other
        /\ result'.kind = "ref" =>
              /\ result'.id \notin DOMAIN heap
              /\ result'.id \in DOMAIN heap' ]_vars

\* show_attr on a six-component instance has returned its dict and the
\* instance still has its two open and four fixed-slot attributes
C11_Witness ==
    /\ Done("show_attr")
    /\ TypeOf(SelfObj) = <<Edu, "R6Vector">>
    /\ result.kind = "dict"
    /\ Len(result.items) = 6
    /\ Len(SelfObj.dict) = 2
    /\ Len(SelfObj.slots) = 4

\* the names of the attributes an instance carries
AttrNames(obj) == { obj.dict[i][1] : i \in DOMAIN obj.dict }
                  \cup { obj.slots[i][1] : i \in DOMAIN obj.slots }

\* C12: an R5Vector or R6Vector instance carries exactly the attributes of
\* its declared component list in every reachable state: an assignment to an
\* attribute outside that list is rejected and attaches nothing.
C12_ClosedAttributes ==
    \A i \in DOMAIN heap :
       TypeOf(heap[i]) \in SlotTypes =>
          AttrNames(heap[i])
            = { Components(TypeOf(heap[i]))[k] :
                   k \in DOMAIN Components(TypeOf(heap[i])) }

\* C13: show_attr(instance) returns a mapping holding exactly the open
\* attributes of the instance followed by its fixed-slot attributes, each
\* with its current value; for R6Vector(x=1, y=2, z=3, w=4, v=5, u=6) these
\* are x, y, z, w, v, u in that order, and for an instance of a type without
\* slots the mapping equals the instance's own component mapping.
C13_ShowAttr ==
    Done("show_attr") =>
       /\ result.kind = "dict"
       /\ result.items = SelfObj.dict \o SelfObj.slots
       /\ \A i \in DOMAIN result.items :
             result.items[i][2] = GetAttr(SelfObj, result.items[i][1])
       /\ \A n \in AttrNames(SelfObj) : Has(result.items, n)
       /\ SelfObj = At(Demo(<<Edu, "R6Vector">>), 1) =>
             result.items = << <<"x", 1>>, <<"y", 2>>, <<"z", 3>>,
                               <<"w", 4>>, <<"v", 5>>, <<"u", 6>> >>
       /\ TypeOf(SelfObj) \in OpenTypes => result.items = Vars(SelfObj)

\* show_attr has run on R6Vector(x=1, y=2, z=3, w=4, v=5, u=6)
C13_Witness ==
    /\ Done("show_attr")
    /\ SelfObj = At(Demo(<<Edu, "R6Vector">>), 1)
    /\ Keys(result.items) = <<"x", "y", "z", "w", "v", "u">>
    /\ Values(result.items) = <<1, 2, 3, 4, 5, 6>>

\* C14: a constructor call of any class of either module yields an instance
\* only if every parameter of the class is given by keyword and none
\* positionally; every other call (a positional argument, an omitted
\* parameter) is rejected with a TypeError.
C14_KeywordOnly ==
    Done("new") =>
       IF other.pos = <<>> /\ Keys(other.kw) = Params(<<other.mod, other.cls>>)
       THEN result = Ref(1)
       ELSE result = TypeError

\* C15: on two instances of the same type, if self == other is true then the
\* two norms are equal, so self < other and self > other are false and
\* self <= other and self >= other are true.
C15_EqualityAgreesWithOrder ==
    (Done("eq") /\ SameType /\ result = BoolV(TRUE)) =>
        /\ Norm(SelfObj) = Norm(OtherObj)
        /\ OpLt(SelfObj, OtherObj) = BoolV(FALSE)
        /\ OpGt(SelfObj, OtherObj) = BoolV(FALSE)
        /\ OpLe(SelfObj, OtherObj) = BoolV(TRUE)
        /\ OpGe(SelfObj, OtherObj) = BoolV(TRUE)

====
